---------------------------- MODULE Spec2Model ----------------------------
(***************************************************************************)
(* The five linked lists of the repository (first.rs .. fifth.rs) as one   *)
(* state machine.  The modules are independent: a run exercises one of     *)
(* them, chosen in Init (variant).  Every list lives in an explicit heap   *)
(* (mem) of MaxNodes addresses, so that pointers, reference counts and     *)
(* freed cells are part of the state.  Each method of the source is an     *)
(* operator from the list state to the new list state and the returned     *)
(* value; the actions apply them with inputs drawn from small sets.        *)
(*                                                                         *)
(* hist and last are history variables: hist.seq is the abstract sequence  *)
(* of elements pushed and not yet popped (hist.via: the end each was pushed *)
(* at), hist.drained remembers that a pop has emptied the list,            *)
(* hist.crossed that the last pop returned an element pushed at the other  *)
(* end, hist.steps counts the lists made and dropped in third.rs (capped   *)
(* by MaxSteps), hist.snap is the abstract sequence at the time the live   *)
(* IntoIter or IterMut was made or the list was dropped, last is the most  *)
(* recent call and its result.  dropped: the list of the run has been dropped (first.rs,       *)
(* second.rs, fourth.rs, fifth.rs; third.rs keeps the set of live lists).  *)
(***************************************************************************)
EXTENDS Integers, Sequences, FiniteSets, TLC

VARIABLES variant, dropped, first, second, third, fourth, fifth, iter, hist, last

vars == <<variant, dropped, first, second, third, fourth, fifth, iter, hist, last>>

\* ------------------------------------------------------------------ bounds
MaxNodes == 3
MaxElem == 2
MaxLists == 3
MaxYield == 4
MaxSteps == 6

\* --------------------------------------------------------------- universe
NULL == 0
Addr == 1..MaxNodes
Elems == 1..MaxElem
Handles == 1..MaxLists
Variants == {"first", "second", "third", "fourth", "fifth"}

\* Option<T>: None and Some(v)
None == << >>
Some(v) == << v >>

\* ------------------------------------------------------------------ first.rs
\* A heap cell that holds no node (never allocated, or freed).
FreeBox == [elem |-> 0, next |-> NULL, live |-> FALSE]

First_new == [head |-> NULL, mem |-> [a \in Addr |-> FreeBox]]

First_push(l, a, elem) ==
    LET next == l.head                          \* mem::replace(&mut self.head, Empty)
        l1 == [l EXCEPT !.head = NULL]
        new_node == [elem |-> elem, next |-> next, live |-> TRUE]
        l2 == [l1 EXCEPT !.mem[a] = new_node]   \* Box::new at address a
    IN  [list |-> [l2 EXCEPT !.head = a], ret |-> None]

First_pop(l) ==
    LET taken == l.head                         \* mem::replace(&mut self.head, Empty)
        l1 == [l EXCEPT !.head = NULL]
    IN  IF taken = NULL
        THEN [list |-> l1, ret |-> None]
        ELSE LET node == l1.mem[taken]
                 l2 == [l1 EXCEPT !.head = node.next]
             IN  [list |-> [l2 EXCEPT !.mem[taken] = FreeBox],  \* the Box is dropped
                  ret |-> Some(node.elem)]

\* ----------------------------------------------------------------- second.rs
Second_new == [head |-> NULL, mem |-> [a \in Addr |-> FreeBox]]

Second_push(l, a, elem) ==
    LET next == l.head                          \* self.head.take()
        l1 == [l EXCEPT !.head = NULL]
        new_node == [elem |-> elem, next |-> next, live |-> TRUE]
        l2 == [l1 EXCEPT !.mem[a] = new_node]
    IN  [list |-> [l2 EXCEPT !.head = a], ret |-> None]

Second_pop_keepsNone(l) ==
    LET taken == l.head
        l1 == [l EXCEPT !.head = NULL]
    IN  IF taken = NULL
        THEN [list |-> l1, ret |-> None]
        ELSE [list |-> [l1 EXCEPT !.mem[taken] = FreeBox],
              ret |-> Some(l.mem[taken].elem)]

Second_pop(l) ==
    LET taken == l.head                         \* self.head.take()
        l1 == [l EXCEPT !.head = NULL]
    IN  IF taken = NULL
        THEN [list |-> l1, ret |-> None]
        ELSE LET node == l1.mem[taken]
                 l2 == [l1 EXCEPT !.head = node.next]
             IN  [list |-> [l2 EXCEPT !.mem[taken] = FreeBox],
                  ret |-> Some(node.elem)]

Second_peek_removes(l) ==
    Second_pop(l)

Second_peek(l) ==
    [list |-> l,
     ret |-> IF l.head = NULL THEN None ELSE Some(l.mem[l.head].elem)]

\* Iter { next }: the node the iterator yields next, NULL when exhausted.
Second_iter(l) == l.head

Second_Iter_next(l, it) ==
    IF it = NULL
    THEN [next |-> NULL, ret |-> None]
    ELSE [next |-> l.mem[it].next, ret |-> Some(l.mem[it].elem)]

\* The function the caller of iter_mut applies to each element it is handed
\* ( *elem *= 100 ), kept within Elems: no element is mapped to itself.
Times(x) == (x % MaxElem) + 1

\* A write of v through a &mut to the elem field of node ref, as the callers
\* of peek_mut and iter_mut do ( *value = 42 ).
Store(l, ref, v) == [l EXCEPT !.mem[ref].elem = v]

Second_peek_mut_second(l) ==
    LET node == IF l.head = NULL THEN NULL ELSE l.mem[l.head].next
    IN  [list |-> l, ref |-> node,
         ret |-> IF node = NULL THEN None ELSE Some(l.mem[node].elem)]

\* ref: the node whose elem the returned &mut points to, NULL for None.
Second_peek_mut(l) ==
    [list |-> l, ref |-> l.head,
     ret |-> IF l.head = NULL THEN None ELSE Some(l.mem[l.head].elem)]

\* IterMut { next }: the node the iterator yields next, NULL once taken and not
\* set again.  ref: the node whose elem the yielded &mut points to.
Second_iter_mut(l) == l.head

Second_IterMut_next(l, it) ==
    IF it = NULL
    THEN [next |-> NULL, ref |-> NULL, ret |-> None]
    ELSE [next |-> l.mem[it].next, ref |-> it, ret |-> Some(l.mem[it].elem)]

\* IntoIter(self): the iterator owns the list; next() pops it.
Second_into_iter(l) == l

Second_IntoIter_next(l) == Second_pop(l)

\* Drop: the loop takes each node's next link out and lets the node go.
Max(a, b) == IF a >= b THEN a ELSE b

\* What the compiler does when a Box<Node> goes out of scope: the node is
\* destroyed, and destroying it drops its next field, a nested destruction
\* when that holds a node.  depth: the deepest nesting of node destructions.
RECURSIVE Second_Box_drop(_, _)
Second_Box_drop(mem, p) ==
    IF p = NULL
    THEN [mem |-> mem, depth |-> 0]
    ELSE LET r == Second_Box_drop([mem EXCEPT ![p] = FreeBox], mem[p].next)
         IN  [mem |-> r.mem, depth |-> r.depth + 1]

Second_drop_run_derived(mem, cur_link, steps, depth) ==
    LET d == Second_Box_drop(mem, cur_link)
    IN  [mem |-> d.mem, steps |-> steps, depth |-> Max(depth, d.depth)]

\* The while let loop: one step takes the next link out of boxed_node and
\* lets boxed_node go at the end of the body.  steps: the bodies executed.
RECURSIVE Second_drop_run(_, _, _, _)
Second_drop_run(mem, cur_link, steps, depth) ==
    IF cur_link = NULL
    THEN [mem |-> mem, steps |-> steps, depth |-> depth]
    ELSE LET next == mem[cur_link].next         \* boxed_node.next.take()
             m1 == [mem EXCEPT ![cur_link].next = NULL]
             d == Second_Box_drop(m1, cur_link)
         IN  Second_drop_run(d.mem, next, steps + 1, Max(depth, d.depth))

Second_drop_loop(mem, cur_link) == Second_drop_run(mem, cur_link, 0, 0).mem

Second_drop(l) ==
    [list |-> [l EXCEPT !.head = NULL, !.mem = Second_drop_loop(l.mem, l.head)],
     ret |-> None]

\* ------------------------------------------------------------------ fifth.rs
\* ub: the code has dereferenced a pointer to a freed node (undefined
\* behaviour); nothing is said about the program from there on.
Fifth_new ==
    [head |-> NULL, tail |-> NULL, mem |-> [a \in Addr |-> FreeBox], ub |-> FALSE]

Fifth_push_atHead(l, a, elem) ==
    LET new_tail == [elem |-> elem, next |-> l.head, live |-> TRUE]
        l1 == [l EXCEPT !.mem[a] = new_tail, !.head = a]
    IN  [list |-> IF l.tail = NULL THEN [l1 EXCEPT !.tail = a] ELSE l1,
         ret |-> None]

Fifth_push_keepsTail(l, a, elem) ==
    LET new_tail == [elem |-> elem, next |-> NULL, live |-> TRUE]
        l1 == [l EXCEPT !.mem[a] = new_tail]
    IN  IF l1.tail # NULL
        THEN IF l1.mem[l1.tail].live
             THEN [list |-> [l1 EXCEPT !.mem[l1.tail].next = a], ret |-> None]
             ELSE [list |-> [l1 EXCEPT !.ub = TRUE], ret |-> None]
        ELSE [list |-> [l1 EXCEPT !.head = a], ret |-> None]

Fifth_push_noLink(l, a, elem) ==
    LET new_tail == [elem |-> elem, next |-> NULL, live |-> TRUE]
        l1 == [l EXCEPT !.mem[a] = new_tail]
    IN  IF l1.tail # NULL
        THEN [list |-> [l1 EXCEPT !.tail = a], ret |-> None]
        ELSE [list |-> [l1 EXCEPT !.head = a, !.tail = a], ret |-> None]

Fifth_push(l, a, elem) ==
    LET new_tail == [elem |-> elem, next |-> NULL, live |-> TRUE]
        l1 == [l EXCEPT !.mem[a] = new_tail]    \* Box::into_raw(Box::new(..))
    IN  IF l1.tail # NULL
        THEN IF l1.mem[l1.tail].live
             THEN [list |-> [l1 EXCEPT !.mem[l1.tail].next = a, !.tail = a],
                   ret |-> None]
             ELSE [list |-> [l1 EXCEPT !.ub = TRUE], ret |-> None]
        ELSE [list |-> [l1 EXCEPT !.head = a, !.tail = a], ret |-> None]

Fifth_pop_staleTail(l) ==
    IF l.head = NULL
    THEN [list |-> l, ret |-> None]
    ELSE IF ~l.mem[l.head].live
    THEN [list |-> [l EXCEPT !.ub = TRUE], ret |-> None]
    ELSE LET head == l.mem[l.head]
         IN  [list |-> [l EXCEPT !.head = head.next, !.mem[l.head] = FreeBox],
              ret |-> Some(head.elem)]

Fifth_pop(l) ==
    IF l.head = NULL
    THEN [list |-> l, ret |-> None]
    ELSE IF ~l.mem[l.head].live
    THEN [list |-> [l EXCEPT !.ub = TRUE], ret |-> None]
    ELSE LET head == l.mem[l.head]              \* Box::from_raw(self.head)
             l1 == [l EXCEPT !.head = head.next]
             l2 == IF l1.head = NULL THEN [l1 EXCEPT !.tail = NULL] ELSE l1
         IN  [list |-> [l2 EXCEPT !.mem[l.head] = FreeBox],  \* the Box is dropped
              ret |-> Some(head.elem)]

Fifth_peek(l) ==
    [list |-> l,
     ret |-> IF l.head = NULL THEN None ELSE Some(l.mem[l.head].elem)]

Fifth_iter(l) == l.head

Fifth_Iter_next_stuck(l, it) ==
    IF it = NULL
    THEN [next |-> NULL, ret |-> None]
    ELSE [next |-> it, ret |-> Some(l.mem[it].elem)]

Fifth_Iter_next(l, it) ==
    IF it = NULL
    THEN [next |-> NULL, ret |-> None]
    ELSE [next |-> l.mem[it].next, ret |-> Some(l.mem[it].elem)]

Fifth_peek_mut(l) ==
    [list |-> l, ref |-> l.head,
     ret |-> IF l.head = NULL THEN None ELSE Some(l.mem[l.head].elem)]

Fifth_iter_mut(l) == l.head

Fifth_IterMut_next_skips(l, it) ==
    IF it = NULL
    THEN [next |-> NULL, ref |-> NULL, ret |-> None]
    ELSE LET after == l.mem[it].next
         IN  [next |-> IF after = NULL THEN NULL ELSE l.mem[after].next,
              ref |-> it, ret |-> Some(l.mem[it].elem)]

Fifth_IterMut_next(l, it) ==
    IF it = NULL
    THEN [next |-> NULL, ref |-> NULL, ret |-> None]
    ELSE [next |-> l.mem[it].next, ref |-> it, ret |-> Some(l.mem[it].elem)]

Fifth_into_iter(l) == l

Fifth_IntoIter_next_peeks(l) ==
    Fifth_peek(l)

Fifth_IntoIter_next(l) == Fifth_pop(l)

\* Drop: while let Some(_) = self.pop() {}.  done: the loop has ended within
\* n + 1 calls of pop.
RECURSIVE Fifth_drop_loop(_, _)
Fifth_drop_loop(l, n) ==
    LET r == Fifth_pop(l)
    IN  IF r.ret = None
        THEN [list |-> r.list, ret |-> None, done |-> TRUE]
        ELSE IF n = 0
        THEN [list |-> r.list, ret |-> None, done |-> FALSE]
        ELSE Fifth_drop_loop(r.list, n - 1)

Fifth_drop_once(l) ==
    [list |-> Fifth_pop(l).list, ret |-> None, done |-> TRUE]

Fifth_drop(l) == Fifth_drop_loop(l, MaxNodes)

\* ------------------------------------------------------------------ third.rs
\* A heap cell of an Rc<Node>: rc is the strong count, 0 for a cell that holds
\* no node.
FreeRc == [elem |-> 0, next |-> NULL, rc |-> 0]

\* Link::clone(): one more strong reference to the node, if there is one.
Rc_clone(mem, p) ==
    IF p = NULL THEN mem ELSE [mem EXCEPT ![p].rc = @ + 1]

\* The lists of a run: live is the set of List values not yet dropped,
\* head[h] is the head field of list h.
Third_init ==
    [live |-> {}, head |-> [h \in Handles |-> NULL], mem |-> [a \in Addr |-> FreeRc]]

Third_new(t, dst) ==
    [list |-> [t EXCEPT !.live = @ \cup {dst}, !.head[dst] = NULL], ret |-> None]

Third_prepend_inPlace(t, src, dst, a, elem) ==
    LET new_node == [elem |-> elem, next |-> t.head[src], rc |-> 2]
    IN  [list |-> [t EXCEPT !.mem[a] = new_node, !.head[dst] = a, !.head[src] = a,
                            !.live = @ \cup {dst}],
         ret |-> None]

Third_prepend(t, src, dst, a, elem) ==
    LET m1 == Rc_clone(t.mem, t.head[src])      \* self.head.clone()
        new_node == [elem |-> elem, next |-> t.head[src], rc |-> 1]
        m2 == [m1 EXCEPT ![a] = new_node]       \* Rc::new at address a
    IN  [list |-> [t EXCEPT !.mem = m2, !.head[dst] = a, !.live = @ \cup {dst}],
         ret |-> None]

Third_tail_sameHead(t, src, dst) ==
    LET h == t.head[src]
    IN  [list |-> [t EXCEPT !.mem = Rc_clone(t.mem, h), !.head[dst] = h,
                            !.live = @ \cup {dst}],
         ret |-> None]

Third_tail(t, src, dst) ==
    LET h == t.head[src]
        nh == IF h = NULL THEN NULL ELSE t.mem[h].next  \* and_then(|node| node.next.clone())
    IN  [list |-> [t EXCEPT !.mem = Rc_clone(t.mem, nh), !.head[dst] = nh,
                            !.live = @ \cup {dst}],
         ret |-> None]

Third_head(t, src) ==
    [list |-> t,
     ret |-> IF t.head[src] = NULL THEN None ELSE Some(t.mem[t.head[src]].elem)]

RECURSIVE Third_drop_loop_noBreak(_, _)
Third_drop_loop_noBreak(mem, head) ==
    IF head = NULL
    THEN mem
    ELSE Third_drop_loop_noBreak([mem EXCEPT ![head] = FreeRc], mem[head].next)

\* The loop of Drop: a node whose only reference is `head` is unwrapped and
\* freed and the loop moves to its successor; a node that is still shared
\* only loses the reference held by `head`, and the loop stops.
\* What the compiler does when an Rc<Node> goes out of scope: the strong count
\* goes down by one; the last reference destroys the node, and destroying it
\* drops its next field, a nested destruction when that was the last
\* reference to the successor.
RECURSIVE Third_Rc_drop(_, _)
Third_Rc_drop(mem, p) ==
    IF p = NULL
    THEN [mem |-> mem, depth |-> 0]
    ELSE IF mem[p].rc > 1
    THEN [mem |-> [mem EXCEPT ![p].rc = @ - 1], depth |-> 0]
    ELSE LET r == Third_Rc_drop([mem EXCEPT ![p] = FreeRc], mem[p].next)
         IN  [mem |-> r.mem, depth |-> r.depth + 1]

\* One step of the loop: try_unwrap gives the node when head is its only
\* reference, its next link is taken out and the node goes at the end of the
\* block; otherwise the Rc given back is dropped and the loop breaks.
RECURSIVE Third_drop_run(_, _, _, _)
Third_drop_run(mem, head, steps, depth) ==
    IF head = NULL
    THEN [mem |-> mem, steps |-> steps, depth |-> depth]
    ELSE IF mem[head].rc = 1
    THEN LET next == mem[head].next             \* node.next.take()
             m1 == [mem EXCEPT ![head].next = NULL]
             d == Third_Rc_drop(m1, head)
         IN  Third_drop_run(d.mem, next, steps + 1, Max(depth, d.depth))
    ELSE LET d == Third_Rc_drop(mem, head)
         IN  [mem |-> d.mem, steps |-> steps + 1, depth |-> Max(depth, d.depth)]

Third_drop_loop(mem, head) == Third_drop_run(mem, head, 0, 0).mem

Third_drop(t, h) ==
    [list |-> [t EXCEPT !.mem = Third_drop_loop(t.mem, t.head[h]),  \* self.head.take()
                        !.head[h] = NULL, !.live = @ \ {h}],
     ret |-> None]

Third_iter(t, src) == t.head[src]

Third_Iter_next(t, it) ==
    IF it = NULL
    THEN [next |-> NULL, ret |-> None]
    ELSE [next |-> t.mem[it].next, ret |-> Some(t.mem[it].elem)]

\* ----------------------------------------------------------------- fourth.rs
\* A heap cell of an Rc<RefCell<Node>>: rc is the strong count, 0 for a cell
\* that holds no node.
FreeCell == [elem |-> 0, next |-> NULL, prev |-> NULL, rc |-> 0]

Node_new(elem) == [elem |-> elem, next |-> NULL, prev |-> NULL, rc |-> 1]

\* Dropping a Link: the strong count goes down by one; the last reference
\* frees the node, which drops the node's own links.
RECURSIVE Link_drop(_, _)
Link_drop(mem, p) ==
    IF p = NULL \/ mem[p].rc = 0
    THEN mem
    ELSE IF mem[p].rc > 1
    THEN [mem EXCEPT ![p].rc = @ - 1]
    ELSE LET node == mem[p]
         IN  Link_drop(Link_drop([mem EXCEPT ![p] = FreeCell], node.next), node.prev)

\* panicked: an unwrap() or a borrow_mut() of the operation has panicked;
\* why: "unwrap" when Rc::try_unwrap found another strong reference, "borrow"
\* when borrow_mut() found the node already borrowed.
Fourth_new ==
    [head |-> NULL, tail |-> NULL, mem |-> [a \in Addr |-> FreeCell],
     panicked |-> FALSE, why |-> "none"]

Fourth_panic(l) ==
    [list |-> [l EXCEPT !.panicked = TRUE, !.why = "unwrap"], ret |-> None]

Fourth_borrow_panic(l) ==
    [list |-> [l EXCEPT !.panicked = TRUE, !.why = "borrow"], ret |-> None]

\* node.borrow_mut() while the RefMuts of the nodes in held are alive: it
\* succeeds when the node is not one of them.
Borrow_mut(held, node) == node \notin held

\* Rc::try_unwrap(p).ok().unwrap().into_inner().elem
Fourth_unwrap(l, p) ==
    IF l.mem[p].rc # 1
    THEN Fourth_panic(l)
    ELSE LET node == l.mem[p]
             m1 == [l.mem EXCEPT ![p] = FreeCell]
             m2 == Link_drop(Link_drop(m1, node.next), node.prev)
         IN  [list |-> [l EXCEPT !.mem = m2], ret |-> Some(node.elem)]

Fourth_push_front_selfLink(l, a, elem) ==
    LET old_head == l.head
        l1 == [l EXCEPT !.head = NULL, !.mem[a] = Node_new(elem)]
    IN  IF old_head # NULL
        THEN LET m1 == Link_drop(l1.mem, l1.mem[old_head].prev)
                 m2 == [m1 EXCEPT ![old_head].prev = a, ![a].rc = @ + 1]
                 m3 == [m2 EXCEPT ![a].next = a, ![a].rc = @ + 1]
                 m4 == Link_drop(m3, old_head)
             IN  [list |-> [l1 EXCEPT !.mem = m4, !.head = a], ret |-> None]
        ELSE LET m1 == Link_drop(l1.mem, l1.tail)
                 m2 == [m1 EXCEPT ![a].rc = @ + 1]
             IN  [list |-> [l1 EXCEPT !.mem = m2, !.tail = a, !.head = a],
                  ret |-> None]

Fourth_push_front(l, a, elem) ==
    LET old_head == l.head                      \* self.head.take()
        l1 == [l EXCEPT !.head = NULL, !.mem[a] = Node_new(elem)]
    IN  IF old_head # NULL
        THEN LET m1 == Link_drop(l1.mem, l1.mem[old_head].prev)
                 m2 == [m1 EXCEPT ![old_head].prev = a, ![a].rc = @ + 1]
                 m3 == [m2 EXCEPT ![a].next = old_head]
             IN  [list |-> [l1 EXCEPT !.mem = m3, !.head = a], ret |-> None]
        ELSE LET m1 == Link_drop(l1.mem, l1.tail)
                 m2 == [m1 EXCEPT ![a].rc = @ + 1]
             IN  [list |-> [l1 EXCEPT !.mem = m2, !.tail = a, !.head = a],
                  ret |-> None]

Fourth_push_back_noHead(l, a, elem) ==
    LET old_tail == l.tail
        l1 == [l EXCEPT !.tail = NULL, !.mem[a] = Node_new(elem)]
    IN  IF old_tail # NULL
        THEN LET m1 == Link_drop(l1.mem, l1.mem[old_tail].next)
                 m2 == [m1 EXCEPT ![old_tail].next = a, ![a].rc = @ + 1]
                 m3 == [m2 EXCEPT ![a].prev = old_tail]
             IN  [list |-> [l1 EXCEPT !.mem = m3, !.tail = a], ret |-> None]
        ELSE [list |-> [l1 EXCEPT !.tail = a], ret |-> None]

Fourth_push_back(l, a, elem) ==
    LET old_tail == l.tail                      \* self.tail.take()
        l1 == [l EXCEPT !.tail = NULL, !.mem[a] = Node_new(elem)]
    IN  IF old_tail # NULL
        THEN LET m1 == Link_drop(l1.mem, l1.mem[old_tail].next)
                 m2 == [m1 EXCEPT ![old_tail].next = a, ![a].rc = @ + 1]
                 m3 == [m2 EXCEPT ![a].prev = old_tail]
             IN  [list |-> [l1 EXCEPT !.mem = m3, !.tail = a], ret |-> None]
        ELSE LET m1 == Link_drop(l1.mem, l1.head)
                 m2 == [m1 EXCEPT ![a].rc = @ + 1]
             IN  [list |-> [l1 EXCEPT !.mem = m2, !.head = a, !.tail = a],
                  ret |-> None]

\* pop_front up to its last statement: the list as Rc::try_unwrap finds it and
\* the node it is called on (NULL: the list was empty or the code has
\* panicked).  The RefMut of old_head lives to the end of the match.
Fourth_unlink_front_keepsPrev(l) ==
    LET old_head == l.head
        l1 == [l EXCEPT !.head = NULL]
    IN  IF old_head = NULL
        THEN [list |-> l1, node |-> NULL]
        ELSE LET new_head == l1.mem[old_head].next
                 l2 == [l1 EXCEPT !.mem[old_head].next = NULL]
             IN  IF new_head # NULL
                 THEN [list |-> [l2 EXCEPT !.head = new_head], node |-> old_head]
                 ELSE [list |-> [l2 EXCEPT !.tail = NULL,
                                           !.mem = Link_drop(l2.mem, l2.tail)],
                       node |-> old_head]

Fourth_unlink_front(l) ==
    LET old_head == l.head                      \* self.head.take()
        l1 == [l EXCEPT !.head = NULL]
    IN  IF old_head = NULL
        THEN [list |-> l1, node |-> NULL]
        ELSE LET new_head == l1.mem[old_head].next  \* old_head.borrow_mut().next.take()
                 l2 == [l1 EXCEPT !.mem[old_head].next = NULL]
             IN  IF new_head # NULL
                 THEN IF ~Borrow_mut({old_head}, new_head)
                      THEN [list |-> Fourth_borrow_panic(l2).list, node |-> NULL]
                      ELSE LET taken == l2.mem[new_head].prev
                               m1 == [l2.mem EXCEPT ![new_head].prev = NULL]
                               m2 == Link_drop(m1, taken)
                           IN  [list |-> [l2 EXCEPT !.mem = m2, !.head = new_head],
                                node |-> old_head]
                 ELSE LET taken == l2.tail      \* self.tail.take()
                      IN  [list |-> [l2 EXCEPT !.tail = NULL,
                                               !.mem = Link_drop(l2.mem, taken)],
                           node |-> old_head]

Fourth_pop_front(l) ==
    LET u == Fourth_unlink_front(l)
    IN  IF u.node = NULL
        THEN [list |-> u.list, ret |-> None]
        ELSE Fourth_unwrap(u.list, u.node)

Fourth_pop_back_fromFront(l) ==
    Fourth_pop_front(l)

Fourth_unlink_back(l) ==
    LET old_tail == l.tail                      \* self.tail.take()
        l1 == [l EXCEPT !.tail = NULL]
    IN  IF old_tail = NULL
        THEN [list |-> l1, node |-> NULL]
        ELSE LET new_tail == l1.mem[old_tail].prev  \* old_tail.borrow_mut().prev.take()
                 l2 == [l1 EXCEPT !.mem[old_tail].prev = NULL]
             IN  IF new_tail # NULL
                 THEN IF ~Borrow_mut({old_tail}, new_tail)
                      THEN [list |-> Fourth_borrow_panic(l2).list, node |-> NULL]
                      ELSE LET taken == l2.mem[new_tail].next
                               m1 == [l2.mem EXCEPT ![new_tail].next = NULL]
                               m2 == Link_drop(m1, taken)
                           IN  [list |-> [l2 EXCEPT !.mem = m2, !.tail = new_tail],
                                node |-> old_tail]
                 ELSE LET taken == l2.head      \* self.head.take()
                      IN  [list |-> [l2 EXCEPT !.head = NULL,
                                               !.mem = Link_drop(l2.mem, taken)],
                           node |-> old_tail]

Fourth_pop_back(l) ==
    LET u == Fourth_unlink_back(l)
    IN  IF u.node = NULL
        THEN [list |-> u.list, ret |-> None]
        ELSE Fourth_unwrap(u.list, u.node)

\* What dropping the two fields of the list would do without the loop.
Fourth_drop_derived(l) ==
    [list |-> [l EXCEPT !.head = NULL, !.tail = NULL,
                        !.mem = Link_drop(Link_drop(l.mem, l.head), l.tail)],
     ret |-> None, done |-> TRUE]

\* Drop: while self.pop_front().is_some() {}, then the fields, both None by
\* then, are dropped.  done: the loop has ended within n + 1 calls of
\* pop_front, without a panic.
RECURSIVE Fourth_drop_loop(_, _)
Fourth_drop_loop(l, n) ==
    LET r == Fourth_pop_front(l)
    IN  IF r.list.panicked
        THEN [list |-> r.list, ret |-> None, done |-> FALSE]
        ELSE IF r.ret = None
        THEN [list |-> [r.list EXCEPT !.head = NULL, !.tail = NULL,
                           !.mem = Link_drop(Link_drop(r.list.mem, r.list.head),
                                             r.list.tail)],
              ret |-> None, done |-> TRUE]
        ELSE IF n = 0
        THEN [list |-> r.list, ret |-> None, done |-> FALSE]
        ELSE Fourth_drop_loop(r.list, n - 1)

Fourth_drop(l) == Fourth_drop_loop(l, MaxNodes)

\* The peeks: ref is the node whose elem the returned Ref or RefMut points to,
\* NULL for None.  The list is unborrowed when they are called, so borrow()
\* and borrow_mut() succeed.
Fourth_peek_front(l) ==
    [list |-> l, ref |-> l.head,
     ret |-> IF l.head = NULL THEN None ELSE Some(l.mem[l.head].elem)]

Fourth_peek_back_atHead(l) ==
    Fourth_peek_front(l)

Fourth_peek_back(l) ==
    [list |-> l, ref |-> l.tail,
     ret |-> IF l.tail = NULL THEN None ELSE Some(l.mem[l.tail].elem)]

Fourth_peek_back_mut(l) ==
    [list |-> l, ref |-> l.tail,
     ret |-> IF l.tail = NULL THEN None ELSE Some(l.mem[l.tail].elem)]

Fourth_peek_front_mut(l) ==
    [list |-> l, ref |-> l.head,
     ret |-> IF l.head = NULL THEN None ELSE Some(l.mem[l.head].elem)]

\* ---------------------------------------------------------------- the runs
\* kind: "iter" for an Iter, "into" for an IntoIter, "mut" for an IterMut.
NoIter ==
    [active |-> FALSE, kind |-> "none", next |-> NULL, out |-> << >>, src |-> 0]

\* The addresses of the chain of nodes that starts at p, at most n of them.
RECURSIVE Chain(_, _, _)
Chain(mem, p, n) ==
    IF p = NULL \/ n = 0
    THEN << >>
    ELSE << p >> \o Chain(mem, mem[p].next, n - 1)

Call(op, arg, ret, src, dst) ==
    [op |-> op, arg |-> arg, ret |-> ret, src |-> src, dst |-> dst]

Init ==
    /\ variant \in Variants
    /\ dropped = FALSE
    /\ first = First_new
    /\ second = Second_new
    /\ third = Third_init
    /\ fourth = Fourth_new
    /\ fifth = Fifth_new
    /\ iter = NoIter
    /\ hist = [seq |-> << >>, via |-> << >>, drained |-> FALSE, crossed |-> FALSE,
               steps |-> 0, snap |-> << >>]
    /\ last = Call("start", 0, None, 0, 0)

\* The abstract sequence after a pop or a push at either end.  via[i] is the
\* end element i was pushed at; crossed: the last pop returned an element that
\* was pushed at the other end.
AbsPopFront(h) ==
    IF h.seq = << >>
    THEN [h EXCEPT !.crossed = FALSE]
    ELSE [h EXCEPT !.seq = Tail(@), !.via = Tail(@),
                   !.drained = @ \/ Len(h.seq) = 1,
                   !.crossed = (h.via[1] = "back")]

AbsPopBack(h) ==
    IF h.seq = << >>
    THEN [h EXCEPT !.crossed = FALSE]
    ELSE [h EXCEPT !.seq = SubSeq(@, 1, Len(@) - 1), !.via = SubSeq(@, 1, Len(@) - 1),
                   !.drained = @ \/ Len(h.seq) = 1,
                   !.crossed = (h.via[Len(h.via)] = "front")]

AbsPushFront(h, x) == [h EXCEPT !.seq = << x >> \o @, !.via = << "front" >> \o @]

AbsPushBack(h, x) == [h EXCEPT !.seq = Append(@, x), !.via = Append(@, "back")]

\* The abstract sequence after element i, if there is one, is overwritten.
AbsStore(h, i, v) ==
    IF i \in 1..Len(h.seq) THEN [h EXCEPT !.seq[i] = v] ELSE h

\* The abstract sequence of a list that is no more; snap keeps what it held.
AbsDrop(h) == [h EXCEPT !.seq = << >>, !.via = << >>, !.snap = h.seq]

\* first.rs
FirstPush ==
    /\ variant = "first"
    /\ \E x \in Elems, a \in Addr :
          /\ ~first.mem[a].live
          /\ LET r == First_push(first, a, x)
             IN  /\ first' = r.list
                 /\ last' = Call("push", x, r.ret, 0, 0)
          /\ hist' = AbsPushFront(hist, x)
    /\ UNCHANGED <<variant, dropped, second, third, fourth, fifth, iter>>

FirstPop ==
    /\ variant = "first"
    /\ LET r == First_pop(first)
       IN  /\ first' = r.list
           /\ last' = Call("pop", 0, r.ret, 0, 0)
    /\ hist' = AbsPopFront(hist)
    /\ UNCHANGED <<variant, dropped, second, third, fourth, fifth, iter>>

\* second.rs: push and pop take &mut self, which no live iterator allows; peek
\* and iter take &self, which an Iter allows and an IterMut does not; an
\* IntoIter owns the list.
SecondPush ==
    /\ variant = "second"
    /\ ~dropped
    /\ ~iter.active
    /\ \E x \in Elems, a \in Addr :
          /\ ~second.mem[a].live
          /\ LET r == Second_push(second, a, x)
             IN  /\ second' = r.list
                 /\ last' = Call("push", x, r.ret, 0, 0)
          /\ hist' = AbsPushFront(hist, x)
    /\ UNCHANGED <<variant, dropped, first, third, fourth, fifth, iter>>

SecondPop ==
    /\ variant = "second"
    /\ ~dropped
    /\ ~iter.active
    /\ LET r == Second_pop(second)
       IN  /\ second' = r.list
           /\ last' = Call("pop", 0, r.ret, 0, 0)
    /\ hist' = AbsPopFront(hist)
    /\ UNCHANGED <<variant, dropped, first, third, fourth, fifth, iter>>

SecondPeek ==
    /\ variant = "second"
    /\ ~dropped
    /\ iter.kind \in {"none", "iter"}
    /\ LET r == Second_peek(second)
       IN  /\ second' = r.list
           /\ last' = Call("peek", 0, r.ret, 0, 0)
    /\ UNCHANGED <<variant, dropped, first, third, fourth, fifth, iter, hist>>

\* list.peek_mut().map(|value| *value = v)
SecondPeekMut ==
    /\ variant = "second"
    /\ ~dropped
    /\ ~iter.active
    /\ \E v \in Elems :
          LET r == Second_peek_mut(second)
          IN  /\ second' = IF r.ref = NULL THEN r.list ELSE Store(r.list, r.ref, v)
              /\ last' = Call("peek_mut", v, r.ret, 0, 0)
              /\ hist' = AbsStore(hist, 1, v)
    /\ UNCHANGED <<variant, dropped, first, third, fourth, fifth, iter>>

SecondIter ==
    /\ variant = "second"
    /\ ~dropped
    /\ iter.kind \in {"none", "iter"}
    /\ iter' = [active |-> TRUE, kind |-> "iter", next |-> Second_iter(second),
                out |-> << >>, src |-> 0]
    /\ last' = Call("iter", 0, None, 0, 0)
    /\ UNCHANGED <<variant, dropped, first, second, third, fourth, fifth, hist>>

SecondIterNext ==
    /\ variant = "second"
    /\ ~dropped
    /\ iter.kind = "iter"
    /\ Len(iter.out) < MaxYield
    /\ LET r == Second_Iter_next(second, iter.next)
       IN  /\ iter' = [iter EXCEPT !.next = r.next, !.out = Append(@, r.ret)]
           /\ last' = Call("next", 0, r.ret, 0, 0)
    /\ UNCHANGED <<variant, dropped, first, second, third, fourth, fifth, hist>>

\* for elem in list.iter_mut() { *elem = Times(*elem) }: iter_mut takes &mut self;
\* each call of next() is followed by the caller's write through the reference.
SecondIterMut ==
    /\ variant = "second"
    /\ ~dropped
    /\ ~iter.active
    /\ iter' = [active |-> TRUE, kind |-> "mut", next |-> Second_iter_mut(second),
                out |-> << >>, src |-> 0]
    /\ last' = Call("iter_mut", 0, None, 0, 0)
    /\ hist' = [hist EXCEPT !.snap = hist.seq]
    /\ UNCHANGED <<variant, dropped, first, second, third, fourth, fifth>>

SecondIterMutNext ==
    /\ variant = "second"
    /\ ~dropped
    /\ iter.kind = "mut"
    /\ Len(iter.out) < MaxYield
    /\ LET r == Second_IterMut_next(second, iter.next)
       IN  /\ second' = IF r.ref = NULL
                       THEN second
                       ELSE Store(second, r.ref, Times(second.mem[r.ref].elem))
           /\ iter' = [iter EXCEPT !.next = r.next, !.out = Append(@, r.ret)]
           /\ last' = Call("mut_next", 0, r.ret, 0, 0)
    /\ hist' = IF Len(iter.out) < Len(hist.seq)
               THEN AbsStore(hist, Len(iter.out) + 1, Times(hist.seq[Len(iter.out) + 1]))
               ELSE hist
    /\ UNCHANGED <<variant, dropped, first, third, fourth, fifth>>

\* list.into_iter(): the list moves into the iterator, which needs it
\* unborrowed; when the IntoIter goes out of scope the list in it is dropped.
SecondIntoIter ==
    /\ variant = "second"
    /\ ~dropped
    /\ ~iter.active
    /\ second' = Second_into_iter(second)
    /\ iter' = [active |-> TRUE, kind |-> "into", next |-> NULL, out |-> << >>,
                src |-> 0]
    /\ last' = Call("into_iter", 0, None, 0, 0)
    /\ hist' = [hist EXCEPT !.snap = hist.seq]
    /\ UNCHANGED <<variant, dropped, first, third, fourth, fifth>>

SecondIntoIterNext ==
    /\ variant = "second"
    /\ ~dropped
    /\ iter.kind = "into"
    /\ Len(iter.out) < MaxYield
    /\ LET r == Second_IntoIter_next(second)
       IN  /\ second' = r.list
           /\ iter' = [iter EXCEPT !.out = Append(@, r.ret)]
           /\ last' = Call("into_next", 0, r.ret, 0, 0)
    /\ hist' = AbsPopFront(hist)
    /\ UNCHANGED <<variant, dropped, first, third, fourth, fifth>>

SecondIntoIterEnd ==
    /\ variant = "second"
    /\ ~dropped
    /\ iter.kind = "into"
    /\ LET r == Second_drop(second)
       IN  /\ second' = r.list
           /\ last' = Call("into_end", 0, r.ret, 0, 0)
    /\ dropped' = TRUE
    /\ iter' = NoIter
    /\ hist' = AbsDrop(hist)
    /\ UNCHANGED <<variant, first, third, fourth, fifth>>

\* The list goes out of scope, which needs it unborrowed.
SecondDrop ==
    /\ variant = "second"
    /\ ~dropped
    /\ ~iter.active
    /\ LET r == Second_drop(second)
       IN  /\ second' = r.list
           /\ last' = Call("drop", 0, r.ret, 0, 0)
    /\ dropped' = TRUE
    /\ hist' = AbsDrop(hist)
    /\ UNCHANGED <<variant, first, third, fourth, fifth, iter>>

\* third.rs: every method takes &self; only dropping a list needs it unborrowed.
\* The name of a new List value and the address of a new node are not
\* observable by the code: the lowest free one is taken.  While an iterator
\* borrows a list, the run goes on with next() calls and with drops of the
\* other lists, the one operation that writes to existing nodes.  A run makes
\* and drops at most MaxSteps lists.
FreshHandle == {h \in Handles \ third.live : \A g \in Handles \ third.live : h <= g}

FreshRc == {a \in Addr : third.mem[a].rc = 0 /\ \A b \in Addr : third.mem[b].rc = 0 => a <= b}

Stepped(h) == [h EXCEPT !.steps = @ + 1]

ThirdNew ==
    /\ variant = "third"
    /\ ~iter.active
    /\ hist.steps < MaxSteps
    /\ \E dst \in FreshHandle :
          LET r == Third_new(third, dst)
          IN  /\ third' = r.list
              /\ last' = Call("new", 0, r.ret, 0, dst)
    /\ hist' = Stepped(hist)
    /\ UNCHANGED <<variant, dropped, first, second, fourth, fifth, iter>>

ThirdPrepend ==
    /\ variant = "third"
    /\ ~iter.active
    /\ hist.steps < MaxSteps
    /\ \E src \in third.live, dst \in FreshHandle, x \in Elems, a \in FreshRc :
          LET r == Third_prepend(third, src, dst, a, x)
          IN  /\ third' = r.list
              /\ last' = Call("prepend", x, r.ret, src, dst)
    /\ hist' = Stepped(hist)
    /\ UNCHANGED <<variant, dropped, first, second, fourth, fifth, iter>>

ThirdTail ==
    /\ variant = "third"
    /\ ~iter.active
    /\ hist.steps < MaxSteps
    /\ \E src \in third.live, dst \in FreshHandle :
          LET r == Third_tail(third, src, dst)
          IN  /\ third' = r.list
              /\ last' = Call("tail", 0, r.ret, src, dst)
    /\ hist' = Stepped(hist)
    /\ UNCHANGED <<variant, dropped, first, second, fourth, fifth, iter>>

ThirdHead ==
    /\ variant = "third"
    /\ ~iter.active
    /\ \E src \in third.live :
          LET r == Third_head(third, src)
          IN  /\ third' = r.list
              /\ last' = Call("head", 0, r.ret, src, 0)
    /\ UNCHANGED <<variant, dropped, first, second, fourth, fifth, iter, hist>>

\* last.arg of a drop: the number of nodes of the list that is dropped.
ThirdDrop ==
    /\ variant = "third"
    /\ hist.steps < MaxSteps
    /\ \E h \in third.live :
          /\ ~(iter.active /\ iter.src = h)
          /\ LET r == Third_drop(third, h)
                 c == Chain(third.mem, third.head[h], MaxNodes + 1)
             IN  /\ third' = r.list
                 /\ last' = Call("drop", Len(c), r.ret, h, 0)
    /\ hist' = Stepped(hist)
    /\ UNCHANGED <<variant, dropped, first, second, fourth, fifth, iter>>

ThirdIter ==
    /\ variant = "third"
    /\ \E src \in third.live :
          /\ iter' = [active |-> TRUE, kind |-> "iter", next |-> Third_iter(third, src),
                      out |-> << >>, src |-> src]
          /\ last' = Call("iter", 0, None, src, 0)
    /\ UNCHANGED <<variant, dropped, first, second, third, fourth, fifth, hist>>

ThirdIterNext ==
    /\ variant = "third"
    /\ iter.kind = "iter"
    /\ Len(iter.out) < MaxYield
    /\ LET r == Third_Iter_next(third, iter.next)
       IN  /\ iter' = [iter EXCEPT !.next = r.next, !.out = Append(@, r.ret)]
           /\ last' = Call("next", 0, r.ret, iter.src, 0)
    /\ UNCHANGED <<variant, dropped, first, second, third, fourth, fifth, hist>>

\* fourth.rs: a panic ends the run.
FourthPushFront ==
    /\ variant = "fourth"
    /\ ~dropped
    /\ ~fourth.panicked
    /\ \E x \in Elems, a \in Addr :
          /\ fourth.mem[a].rc = 0
          /\ LET r == Fourth_push_front(fourth, a, x)
             IN  /\ fourth' = r.list
                 /\ last' = Call("push_front", x, r.ret, 0, 0)
          /\ hist' = AbsPushFront(hist, x)
    /\ UNCHANGED <<variant, dropped, first, second, third, fifth, iter>>

FourthPushBack ==
    /\ variant = "fourth"
    /\ ~dropped
    /\ ~fourth.panicked
    /\ \E x \in Elems, a \in Addr :
          /\ fourth.mem[a].rc = 0
          /\ LET r == Fourth_push_back(fourth, a, x)
             IN  /\ fourth' = r.list
                 /\ last' = Call("push_back", x, r.ret, 0, 0)
          /\ hist' = AbsPushBack(hist, x)
    /\ UNCHANGED <<variant, dropped, first, second, third, fifth, iter>>

FourthPopFront ==
    /\ variant = "fourth"
    /\ ~dropped
    /\ ~fourth.panicked
    /\ LET r == Fourth_pop_front(fourth)
       IN  /\ fourth' = r.list
           /\ last' = Call("pop_front", 0, r.ret, 0, 0)
    /\ hist' = AbsPopFront(hist)
    /\ UNCHANGED <<variant, dropped, first, second, third, fifth, iter>>

FourthPopBack ==
    /\ variant = "fourth"
    /\ ~dropped
    /\ ~fourth.panicked
    /\ LET r == Fourth_pop_back(fourth)
       IN  /\ fourth' = r.list
           /\ last' = Call("pop_back", 0, r.ret, 0, 0)
    /\ hist' = AbsPopBack(hist)
    /\ UNCHANGED <<variant, dropped, first, second, third, fifth, iter>>

\* The Ref or RefMut a peek returns is dropped at the end of the statement;
\* through a RefMut the caller writes v first.
FourthPeekFront ==
    /\ variant = "fourth"
    /\ ~dropped
    /\ ~fourth.panicked
    /\ LET r == Fourth_peek_front(fourth)
       IN  /\ fourth' = r.list
           /\ last' = Call("peek_front", 0, r.ret, 0, 0)
    /\ UNCHANGED <<variant, dropped, first, second, third, fifth, iter, hist>>

FourthPeekBack ==
    /\ variant = "fourth"
    /\ ~dropped
    /\ ~fourth.panicked
    /\ LET r == Fourth_peek_back(fourth)
       IN  /\ fourth' = r.list
           /\ last' = Call("peek_back", 0, r.ret, 0, 0)
    /\ UNCHANGED <<variant, dropped, first, second, third, fifth, iter, hist>>

FourthPeekBackMut ==
    /\ variant = "fourth"
    /\ ~dropped
    /\ ~fourth.panicked
    /\ \E v \in Elems :
          LET r == Fourth_peek_back_mut(fourth)
          IN  /\ fourth' = IF r.ref = NULL THEN r.list ELSE Store(r.list, r.ref, v)
              /\ last' = Call("peek_back_mut", v, r.ret, 0, 0)
              /\ hist' = AbsStore(hist, Len(hist.seq), v)
    /\ UNCHANGED <<variant, dropped, first, second, third, fifth, iter>>

FourthPeekFrontMut ==
    /\ variant = "fourth"
    /\ ~dropped
    /\ ~fourth.panicked
    /\ \E v \in Elems :
          LET r == Fourth_peek_front_mut(fourth)
          IN  /\ fourth' = IF r.ref = NULL THEN r.list ELSE Store(r.list, r.ref, v)
              /\ last' = Call("peek_front_mut", v, r.ret, 0, 0)
              /\ hist' = AbsStore(hist, 1, v)
    /\ UNCHANGED <<variant, dropped, first, second, third, fifth, iter>>

\* The deque goes out of scope.
FourthDrop ==
    /\ variant = "fourth"
    /\ ~dropped
    /\ ~fourth.panicked
    /\ LET r == Fourth_drop(fourth)
       IN  /\ fourth' = r.list
           /\ last' = Call("drop", 0, r.ret, 0, 0)
           /\ dropped' = r.done
    /\ hist' = AbsDrop(hist)
    /\ UNCHANGED <<variant, first, second, third, fifth, iter>>

\* fifth.rs: after undefined behaviour nothing more is modelled.
FifthPush ==
    /\ variant = "fifth"
    /\ ~dropped
    /\ ~fifth.ub
    /\ ~iter.active
    /\ \E x \in Elems, a \in Addr :
          /\ ~fifth.mem[a].live
          /\ LET r == Fifth_push(fifth, a, x)
             IN  /\ fifth' = r.list
                 /\ last' = Call("push", x, r.ret, 0, 0)
          /\ hist' = AbsPushBack(hist, x)
    /\ UNCHANGED <<variant, dropped, first, second, third, fourth, iter>>

FifthPop ==
    /\ variant = "fifth"
    /\ ~dropped
    /\ ~fifth.ub
    /\ ~iter.active
    /\ LET r == Fifth_pop(fifth)
       IN  /\ fifth' = r.list
           /\ last' = Call("pop", 0, r.ret, 0, 0)
    /\ hist' = AbsPopFront(hist)
    /\ UNCHANGED <<variant, dropped, first, second, third, fourth, iter>>

FifthPeek ==
    /\ variant = "fifth"
    /\ ~dropped
    /\ iter.kind \in {"none", "iter"}
    /\ ~fifth.ub
    /\ LET r == Fifth_peek(fifth)
       IN  /\ fifth' = r.list
           /\ last' = Call("peek", 0, r.ret, 0, 0)
    /\ UNCHANGED <<variant, dropped, first, second, third, fourth, iter, hist>>

FifthPeekMut ==
    /\ variant = "fifth"
    /\ ~dropped
    /\ ~fifth.ub
    /\ ~iter.active
    /\ \E v \in Elems :
          LET r == Fifth_peek_mut(fifth)
          IN  /\ fifth' = IF r.ref = NULL THEN r.list ELSE Store(r.list, r.ref, v)
              /\ last' = Call("peek_mut", v, r.ret, 0, 0)
              /\ hist' = AbsStore(hist, 1, v)
    /\ UNCHANGED <<variant, dropped, first, second, third, fourth, iter>>

FifthIter ==
    /\ variant = "fifth"
    /\ ~dropped
    /\ iter.kind \in {"none", "iter"}
    /\ ~fifth.ub
    /\ iter' = [active |-> TRUE, kind |-> "iter", next |-> Fifth_iter(fifth),
                out |-> << >>, src |-> 0]
    /\ last' = Call("iter", 0, None, 0, 0)
    /\ UNCHANGED <<variant, dropped, first, second, third, fourth, fifth, hist>>

FifthIterNext ==
    /\ variant = "fifth"
    /\ ~dropped
    /\ ~fifth.ub
    /\ iter.kind = "iter"
    /\ Len(iter.out) < MaxYield
    /\ LET r == Fifth_Iter_next(fifth, iter.next)
       IN  /\ iter' = [iter EXCEPT !.next = r.next, !.out = Append(@, r.ret)]
           /\ last' = Call("next", 0, r.ret, 0, 0)
    /\ UNCHANGED <<variant, dropped, first, second, third, fourth, fifth, hist>>

\* for elem in list.iter_mut() { *elem = Times(*elem) }: iter_mut takes &mut self;
\* each call of next() is followed by the caller's write through the reference.
FifthIterMut ==
    /\ variant = "fifth"
    /\ ~dropped
    /\ ~fifth.ub
    /\ ~iter.active
    /\ iter' = [active |-> TRUE, kind |-> "mut", next |-> Fifth_iter_mut(fifth),
                out |-> << >>, src |-> 0]
    /\ last' = Call("iter_mut", 0, None, 0, 0)
    /\ hist' = [hist EXCEPT !.snap = hist.seq]
    /\ UNCHANGED <<variant, dropped, first, second, third, fourth, fifth>>

FifthIterMutNext ==
    /\ variant = "fifth"
    /\ ~dropped
    /\ ~fifth.ub
    /\ iter.kind = "mut"
    /\ Len(iter.out) < MaxYield
    /\ LET r == Fifth_IterMut_next(fifth, iter.next)
       IN  /\ fifth' = IF r.ref = NULL
                       THEN fifth
                       ELSE Store(fifth, r.ref, Times(fifth.mem[r.ref].elem))
           /\ iter' = [iter EXCEPT !.next = r.next, !.out = Append(@, r.ret)]
           /\ last' = Call("mut_next", 0, r.ret, 0, 0)
    /\ hist' = IF Len(iter.out) < Len(hist.seq)
               THEN AbsStore(hist, Len(iter.out) + 1, Times(hist.seq[Len(iter.out) + 1]))
               ELSE hist
    /\ UNCHANGED <<variant, dropped, first, second, third, fourth>>

FifthIntoIter ==
    /\ variant = "fifth"
    /\ ~dropped
    /\ ~fifth.ub
    /\ ~iter.active
    /\ fifth' = Fifth_into_iter(fifth)
    /\ iter' = [active |-> TRUE, kind |-> "into", next |-> NULL, out |-> << >>,
                src |-> 0]
    /\ last' = Call("into_iter", 0, None, 0, 0)
    /\ hist' = [hist EXCEPT !.snap = hist.seq]
    /\ UNCHANGED <<variant, dropped, first, second, third, fourth>>

FifthIntoIterNext ==
    /\ variant = "fifth"
    /\ ~dropped
    /\ ~fifth.ub
    /\ iter.kind = "into"
    /\ Len(iter.out) < MaxYield
    /\ LET r == Fifth_IntoIter_next(fifth)
       IN  /\ fifth' = r.list
           /\ iter' = [iter EXCEPT !.out = Append(@, r.ret)]
           /\ last' = Call("into_next", 0, r.ret, 0, 0)
    /\ hist' = AbsPopFront(hist)
    /\ UNCHANGED <<variant, dropped, first, second, third, fourth>>

FifthIntoIterEnd ==
    /\ variant = "fifth"
    /\ ~dropped
    /\ ~fifth.ub
    /\ iter.kind = "into"
    /\ LET r == Fifth_drop(fifth)
       IN  /\ fifth' = r.list
           /\ last' = Call("into_end", 0, r.ret, 0, 0)
           /\ dropped' = r.done
    /\ iter' = NoIter
    /\ hist' = AbsDrop(hist)
    /\ UNCHANGED <<variant, first, second, third, fourth>>

\* The list goes out of scope, which needs it unborrowed.
FifthDrop ==
    /\ variant = "fifth"
    /\ ~dropped
    /\ ~fifth.ub
    /\ ~iter.active
    /\ LET r == Fifth_drop(fifth)
       IN  /\ fifth' = r.list
           /\ last' = Call("drop", 0, r.ret, 0, 0)
           /\ dropped' = r.done
    /\ hist' = AbsDrop(hist)
    /\ UNCHANGED <<variant, first, second, third, fourth, iter>>


IterEnd ==
    /\ iter.kind \in {"iter", "mut"}
    /\ iter' = NoIter
    /\ last' = Call("iter_end", 0, None, 0, 0)
    /\ hist' = [hist EXCEPT !.snap = << >>]
    /\ UNCHANGED <<variant, dropped, first, second, third, fourth, fifth>>

Next ==
    \/ FirstPush
    \/ FirstPop
    \/ SecondPush
    \/ SecondPop
    \/ SecondPeek
    \/ SecondPeekMut
    \/ SecondIter
    \/ SecondIterNext
    \/ SecondIterMut
    \/ SecondIterMutNext
    \/ SecondIntoIter
    \/ SecondIntoIterNext
    \/ SecondIntoIterEnd
    \/ SecondDrop
    \/ ThirdNew
    \/ ThirdPrepend
    \/ ThirdTail
    \/ ThirdHead
    \/ ThirdDrop
    \/ ThirdIter
    \/ ThirdIterNext
    \/ FourthPushFront
    \/ FourthPushBack
    \/ FourthPopFront
    \/ FourthPopBack
    \/ FourthPeekFront
    \/ FourthPeekBack
    \/ FourthPeekBackMut
    \/ FourthPeekFrontMut
    \/ FourthDrop
    \/ FifthPush
    \/ FifthPop
    \/ FifthPeek
    \/ FifthPeekMut
    \/ FifthIter
    \/ FifthIterNext
    \/ FifthIterMut
    \/ FifthIterMutNext
    \/ FifthIntoIter
    \/ FifthIntoIterNext
    \/ FifthIntoIterEnd
    \/ FifthDrop
    \/ IterEnd

Spec == Init /\ [][Next]_vars

\* ------------------------------------------------------------ observations
\* The list of the variant the run exercises, and that list as new() makes it.
Cur ==
    CASE variant = "first" -> first
      [] variant = "second" -> second
      [] variant = "third" -> third
      [] variant = "fourth" -> fourth
      [] variant = "fifth" -> fifth

Fresh ==
    CASE variant = "first" -> First_new
      [] variant = "second" -> Second_new
      [] variant = "third" -> Third_init
      [] variant = "fourth" -> Fourth_new
      [] variant = "fifth" -> Fifth_new

\* What pop would return on list l of the running variant.
NextPop(l) ==
    CASE variant = "first" -> First_pop(l).ret
      [] variant = "second" -> Second_pop(l).ret
      [] variant = "fourth" -> Fourth_pop_front(l).ret
      [] variant = "fifth" -> Fifth_pop(l).ret

\* The lists a push of x on the freshly made list can give.
FreshPushes(op, x) ==
    CASE variant = "first" -> {First_push(First_new, a, x).list : a \in Addr}
      [] variant = "second" -> {Second_push(Second_new, a, x).list : a \in Addr}
      [] variant = "fourth" /\ op = "push_front" ->
            {Fourth_push_front(Fourth_new, a, x).list : a \in Addr}
      [] variant = "fourth" /\ op = "push_back" ->
            {Fourth_push_back(Fourth_new, a, x).list : a \in Addr}
      [] variant = "fifth" -> {Fifth_push(Fifth_new, a, x).list : a \in Addr}

\* The values n + 1 pops in a row return, up to the first None.
RECURSIVE Second_pops(_, _)
Second_pops(l, n) ==
    LET r == Second_pop(l)
    IN  IF r.ret = None \/ n = 0 THEN << >> ELSE r.ret \o Second_pops(r.list, n - 1)

RECURSIVE Fifth_pops(_, _)
Fifth_pops(l, n) ==
    LET r == Fifth_pop(l)
    IN  IF r.ret = None \/ n = 0 THEN << >> ELSE r.ret \o Fifth_pops(r.list, n - 1)

\* The elements of the chain of nodes that starts at p, at most n of them.
RECURSIVE Walk(_, _, _)
Walk(mem, p, n) ==
    IF p = NULL \/ n = 0
    THEN << >>
    ELSE << mem[p].elem >> \o Walk(mem, mem[p].next, n - 1)

\* The element sequence list h of third.rs shows.
Third_seq(t, h) == Walk(t.mem, t.head[h], MaxNodes + 1)

\* What the i-th call of next() returns on a list with elements E.
Yield(E, i) == IF i <= Len(E) THEN Some(E[i]) ELSE None

IsPop(op) == op \in {"pop", "pop_front", "pop_back"}

IsPush(op) == op \in {"push", "push_front", "push_back"}

\* ------------------------------------------------------------------ claims

\* C1 (fifth.rs): every pop of the queue returns the oldest element pushed and
\* not yet popped, None when there is none, and no call runs into undefined
\* behaviour.
C1_QueueFifo ==
    [][variant = "fifth" =>
          /\ ~fifth'.ub
          /\ last'.op = "pop" =>
                last'.ret = IF hist.seq = << >> THEN None ELSE Some(Head(hist.seq))]_vars

\* C1 witness: the queue was drained and refilled with 1 then 2; the pop
\* returned 1 and 2 is still queued.
C1_Witness ==
    /\ variant = "fifth"
    /\ hist.drained
    /\ last.op = "pop"
    /\ last.ret = Some(1)
    /\ hist.seq = << 2 >>

\* C2 (fourth.rs): pop_front returns the first and pop_back the last element of
\* the abstract double-ended sequence, None when it is empty, without a panic.
C2_DequeEnds ==
    [][variant = "fourth" =>
          /\ ~fourth'.panicked
          /\ last'.op = "pop_front" =>
                last'.ret = IF hist.seq = << >> THEN None ELSE Some(Head(hist.seq))
          /\ last'.op = "pop_back" =>
                last'.ret = IF hist.seq = << >> THEN None
                            ELSE Some(hist.seq[Len(hist.seq)])]_vars

\* C2 witness: pop_back has just returned an element that was pushed at the
\* front, and elements remain.
C2_Witness ==
    /\ variant = "fourth"
    /\ last.op = "pop_back"
    /\ last.ret = Some(1)
    /\ hist.crossed
    /\ hist.seq # << >>

\* C3 (first.rs, second.rs): every pop of a stack returns the most recently
\* pushed element not yet popped, None when there is none.
C3_StackLifo ==
    [][(variant \in {"first", "second"} /\ last'.op = "pop") =>
          last'.ret = IF hist.seq = << >> THEN None ELSE Some(Head(hist.seq))]_vars

\* C3 witness: first.rs, 1 then 2 pushed; the pop returned 2 and 1 remains.
C3_Witness ==
    /\ variant = "first"
    /\ last.op = "pop"
    /\ last.ret = Some(2)
    /\ hist.seq = << 1 >>

\* C4 (third.rs): prepend(x) on list src makes a new list that shows x followed
\* by src's elements, and every list that was live shows the elements it showed
\* before.
C4_PrependFrame ==
    [][(variant = "third" /\ last'.op = "prepend") =>
          /\ last'.dst \notin third.live
          /\ third'.live = third.live \cup {last'.dst}
          /\ Third_seq(third', last'.dst)
                = << last'.arg >> \o Third_seq(third, last'.src)
          /\ \A h \in third.live : Third_seq(third', h) = Third_seq(third, h)]_vars

\* C4 witness: two lists made by prepending different elements to one non-empty
\* list, all three live, the two sharing the third's head node.
C4_Witness ==
    /\ variant = "third"
    /\ last.op = "prepend"
    /\ \E h1, h2, h3 \in third.live :
          /\ third.head[h3] # NULL
          /\ third.head[h1] # NULL
          /\ third.head[h2] # NULL
          /\ third.head[h1] # third.head[h2]
          /\ third.mem[third.head[h1]].next = third.head[h3]
          /\ third.mem[third.head[h2]].next = third.head[h3]
          /\ third.mem[third.head[h1]].elem # third.mem[third.head[h2]].elem
          /\ Third_seq(third, h1) = << 1 >> \o Third_seq(third, h3)
          /\ Third_seq(third, h2) = << 2 >> \o Third_seq(third, h3)

\* C5 (first.rs, second.rs, fourth.rs, fifth.rs): a pop of a list that holds no
\* element returns None and leaves the list as new() makes it, and a push on a
\* list that holds no element gives what it gives on a new list.
C5_PopEmpty ==
    [][(variant # "third" /\ hist.seq = << >>) =>
          /\ IsPop(last'.op) =>
                /\ last'.ret = None
                /\ Cur' = Cur
                /\ Cur' = Fresh
          /\ IsPush(last'.op) => Cur' \in FreshPushes(last'.op, last'.arg)]_vars

\* C5 witness: fourth.rs, the deque was used and drained, and pop_back on the
\* empty deque has returned None.
C5_Witness ==
    /\ variant = "fourth"
    /\ hist.drained
    /\ hist.seq = << >>
    /\ last.op = "pop_back"
    /\ last.ret = None
    /\ ~hist.crossed
    /\ fourth = Fourth_new

\* C6 (fifth.rs): between calls tail is null exactly when head is null, and
\* head is null exactly when the queue holds no element.
C6_TailNullIffEmpty ==
    variant = "fifth" =>
       /\ fifth.tail = NULL <=> fifth.head = NULL
       /\ fifth.head = NULL <=> hist.seq = << >>
       /\ ~fifth.ub

\* C6 witness: a push after the queue was drained has installed the new node as
\* head and tail.
C6_Witness ==
    /\ variant = "fifth"
    /\ hist.drained
    /\ last.op = "push"
    /\ Len(hist.seq) = 1
    /\ fifth.head # NULL
    /\ fifth.head = fifth.tail

\* The references to node a of the deque: from head, from tail, and from the
\* next and prev links of the nodes.
InRefs(l, a) ==
    (IF l.head = a THEN 1 ELSE 0) + (IF l.tail = a THEN 1 ELSE 0)
      + Cardinality({b \in Addr : l.mem[b].rc > 0 /\ l.mem[b].next = a})
      + Cardinality({b \in Addr : l.mem[b].rc > 0 /\ l.mem[b].prev = a})

\* C7 (fourth.rs): between calls every node of the deque has strong count 2 and
\* is referenced exactly twice: by its predecessor's next, or by head when it
\* has none, and by its successor's prev, or by tail when it has none.  The
\* nodes are those of the elements in the deque.
C7_TwoReferences ==
    variant = "fourth" =>
       /\ Cardinality({a \in Addr : fourth.mem[a].rc > 0}) = Len(hist.seq)
       /\ \A a \in Addr :
             fourth.mem[a].rc > 0 =>
                LET node == fourth.mem[a]
                IN  /\ node.rc = 2
                    /\ InRefs(fourth, a) = 2
                    /\ IF node.prev = NULL
                       THEN fourth.head = a
                       ELSE fourth.mem[node.prev].rc > 0 /\ fourth.mem[node.prev].next = a
                    /\ IF node.next = NULL
                       THEN fourth.tail = a
                       ELSE fourth.mem[node.next].rc > 0 /\ fourth.mem[node.next].prev = a

\* C7 witness: the deque was drained and refilled, and after a push_front it
\* has a middle node between the head node and the tail node.
C7_Witness ==
    /\ variant = "fourth"
    /\ hist.drained
    /\ last.op = "push_front"
    /\ \E a \in Addr :
          /\ fourth.mem[a].rc = 2
          /\ fourth.mem[a].prev # NULL
          /\ fourth.mem[a].next # NULL
          /\ fourth.head = fourth.mem[a].prev
          /\ fourth.tail = fourth.mem[a].next

\* C8 (third.rs): tail() of list src makes a list that shows src's elements
\* without the first, the empty sequence when src is empty, and every list that
\* was live, src included, shows the elements it showed before.
C8_Tail ==
    [][(variant = "third" /\ last'.op = "tail") =>
          /\ third'.live = third.live \cup {last'.dst}
          /\ Third_seq(third', last'.dst)
                = IF Third_seq(third, last'.src) = << >>
                  THEN << >>
                  ELSE Tail(Third_seq(third, last'.src))
          /\ \A h \in third.live : Third_seq(third', h) = Third_seq(third, h)]_vars

\* C8 witness: the tail of a two-element list, which is still live.
C8_Witness ==
    /\ variant = "third"
    /\ last.op = "tail"
    /\ last.src \in third.live
    /\ last.dst \in third.live
    /\ Third_seq(third, last.src) = << 2, 1 >>
    /\ Third_seq(third, last.dst) = << 1 >>

\* C9 (second.rs, fifth.rs, third.rs): peek and head return what the next pop,
\* or the first next() of a new iterator, returns, and leave the list as it is.
C9_PeekFrame ==
    [][/\ (variant \in {"second", "fifth"} /\ last'.op = "peek") =>
             /\ last'.ret = NextPop(Cur)
             /\ Cur' = Cur
       /\ (variant = "third" /\ last'.op = "head") =>
             /\ last'.ret = Third_Iter_next(third, Third_iter(third, last'.src)).ret
             /\ third' = third]_vars

\* C9 witness: second.rs, peek on a two-element stack has returned its top.
C9_Witness ==
    /\ variant = "second"
    /\ last.op = "peek"
    /\ last.ret = Some(2)
    /\ hist.seq = << 2, 1 >>
    /\ Second_pops(second, MaxNodes) = << 2, 1 >>

\* The elements of the list the iterator borrows, in the order pops return them
\* (third.rs has no pop: in the order of its chain).
IterSource ==
    CASE variant = "second" -> Second_pops(second, MaxNodes)
      [] variant = "fifth" -> Fifth_pops(fifth, MaxNodes)
      [] variant = "third" -> Third_seq(third, iter.src)
      [] OTHER -> << >>

\* The calls of next() on the live iterator have returned the elements of the
\* list it borrows in pop order, and None from then on.
IterYielded ==
    iter.kind = "iter" =>
       \A i \in 1..Len(iter.out) : iter.out[i] = Yield(IterSource, i)

\* C10 (second.rs, third.rs, fifth.rs): in every state the calls of next() on an
\* iterator have returned the elements of the list in pop order and None from
\* then on; a new iterator has yielded nothing; iter() and next() leave the list
\* as it is.
C10_IterYields ==
    /\ []IterYielded
    /\ [][/\ last'.op = "iter" => iter'.active /\ iter'.out = << >>
          /\ last'.op \in {"iter", "next"} => Cur' = Cur]_vars

\* C10 witness: fifth.rs, four calls of next() on the queue 1, 2.
C10_Witness ==
    /\ variant = "fifth"
    /\ iter.active
    /\ hist.seq = << 1, 2 >>
    /\ iter.out = << Some(1), Some(2), None, None >>

\* The values pops in a row return on list l of second.rs or fifth.rs, and what
\* peek returns on it.
Pops(l) ==
    CASE variant = "second" -> Second_pops(l, MaxNodes)
      [] variant = "fifth" -> Fifth_pops(l, MaxNodes)

Peeked(l) ==
    CASE variant = "second" -> Second_peek(l).ret
      [] variant = "fifth" -> Fifth_peek(l).ret

\* C11 (second.rs, fifth.rs): a write of v through the reference peek_mut
\* returns replaces the front element and nothing else: peek_mut has returned
\* the old front element, the next peek and the next pop return v, the pops
\* after it return the other elements as before, and but for the elem field of
\* the head node the list is as it was; on an empty list peek_mut returns None
\* and the list is as it was.
C11_PeekMutFront ==
    [][(variant \in {"second", "fifth"} /\ last'.op = "peek_mut") =>
          IF Pops(Cur) = << >>
          THEN last'.ret = None /\ Cur' = Cur
          ELSE /\ last'.ret = Some(Head(Pops(Cur)))
               /\ Peeked(Cur') = Some(last'.arg)
               /\ NextPop(Cur') = Some(last'.arg)
               /\ Pops(Cur') = << last'.arg >> \o Tail(Pops(Cur))
               /\ Store(Cur', Cur.head, Head(Pops(Cur))) = Cur]_vars

\* C11 witness: second.rs, peek_mut on the stack 1, 1, 2 has written 2 over the
\* top.
C11_Witness ==
    /\ variant = "second"
    /\ last.op = "peek_mut"
    /\ last.arg = 2
    /\ last.ret = Some(1)
    /\ Second_pops(second, MaxNodes) = << 2, 1, 2 >>

\* The calls of next() on the live IntoIter have returned the elements the list
\* held when into_iter took it, in pop order, and None from then on; the list
\* inside the iterator holds the elements not yet yielded.
IntoYielded ==
    iter.kind = "into" =>
       /\ \A i \in 1..Len(iter.out) : iter.out[i] = Yield(hist.snap, i)
       /\ \E k \in 0..Len(hist.snap) : hist.snap = SubSeq(hist.snap, 1, k) \o Pops(Cur)

\* C12 (second.rs, fifth.rs): into_iter takes the list as it is, and the calls
\* of next() on the IntoIter return exactly what pops in a row would have
\* returned on that list (last pushed first for the stack, first pushed first
\* for the queue), then None.
C12_IntoIterPops ==
    /\ []IntoYielded
    /\ [][last'.op = "into_iter" =>
             /\ hist'.snap = Pops(Cur)
             /\ Cur' = Cur
             /\ iter'.kind = "into" /\ iter'.out = << >>]_vars

\* C12 witness: fifth.rs, the IntoIter of the queue 1, 2 has yielded 1, 2 and
\* then None.
C12_Witness ==
    /\ variant = "fifth"
    /\ iter.kind = "into"
    /\ hist.snap = << 1, 2 >>
    /\ iter.out = << Some(1), Some(2), None >>
    /\ fifth.head = NULL

\* The calls of next() on the live IterMut have yielded the elements the list
\* held when iter_mut borrowed it, each once and in pop order, and None from
\* then on; the list holds the same number of elements in the same order, Times
\* applied once to those yielded and the others as they were.
MutVisited ==
    iter.kind = "mut" =>
       /\ \A i \in 1..Len(iter.out) : iter.out[i] = Yield(hist.snap, i)
       /\ Pops(Cur) = [i \in 1..Len(hist.snap) |->
                          IF i <= Len(iter.out) THEN Times(hist.snap[i])
                                                ELSE hist.snap[i]]

\* C13 (second.rs, fifth.rs): iter_mut leaves the list as it is; the IterMut
\* yields every element exactly once in pop order, and after the caller has
\* applied a function to each yielded reference the pops (and so iter) show the
\* old sequence with the function applied to each element: same length, same
\* order, no element skipped or visited twice.
C13_IterMutMaps ==
    /\ []MutVisited
    /\ [][last'.op = "iter_mut" =>
             /\ hist'.snap = Pops(Cur)
             /\ Cur' = Cur
             /\ iter'.kind = "mut" /\ iter'.out = << >>]_vars

\* C13 witness: fifth.rs, the IterMut of the queue 1, 2, 1 has yielded all three
\* elements and None, and the queue now holds 2, 1, 2.
C13_Witness ==
    /\ variant = "fifth"
    /\ iter.kind = "mut"
    /\ hist.snap = << 1, 2, 1 >>
    /\ iter.out = << Some(1), Some(2), Some(1), None >>
    /\ Fifth_pops(fifth, MaxNodes) = << 2, 1, 2 >>

\* The nodes the deque holds.
Fourth_nodes(l) == {a \in Addr : l.mem[a].rc > 0}

\* A deque of one node shows the same element at both ends.
OnePeek ==
    (variant = "fourth" /\ ~fourth.panicked /\ Cardinality(Fourth_nodes(fourth)) = 1) =>
       /\ Fourth_peek_front(fourth).ret = Fourth_peek_back(fourth).ret
       /\ Fourth_peek_front_mut(fourth).ret = Fourth_peek_back_mut(fourth).ret
       /\ Fourth_peek_front(fourth).ret = Fourth_peek_front_mut(fourth).ret
       /\ Fourth_peek_front(fourth).ret # None

\* C14 (fourth.rs): peek_front and peek_front_mut show the element pop_front
\* would return, peek_back and peek_back_mut the element pop_back would return
\* (None on the empty deque); a write through the RefMut changes what that pop
\* returns and nothing else; no peek removes an element or changes a link; on a
\* one-element deque all four show the same element.
C14_DequePeeks ==
    /\ []OnePeek
    /\ [][variant = "fourth" =>
             /\ last'.op \in {"peek_front", "peek_front_mut"} =>
                   last'.ret = Fourth_pop_front(fourth).ret
             /\ last'.op \in {"peek_back", "peek_back_mut"} =>
                   last'.ret = Fourth_pop_back(fourth).ret
             /\ last'.op \in {"peek_front", "peek_back"} => fourth' = fourth
             /\ last'.op = "peek_front_mut" =>
                   IF fourth.head = NULL
                   THEN last'.ret = None /\ fourth' = fourth
                   ELSE /\ fourth' = Store(fourth, fourth.head, last'.arg)
                        /\ Fourth_pop_front(fourth').ret = Some(last'.arg)
             /\ last'.op = "peek_back_mut" =>
                   IF fourth.tail = NULL
                   THEN last'.ret = None /\ fourth' = fourth
                   ELSE /\ fourth' = Store(fourth, fourth.tail, last'.arg)
                        /\ Fourth_pop_back(fourth').ret = Some(last'.arg)]_vars

\* C14 witness: fourth.rs, peek_back on the deque 2, 1 has shown 1, the element
\* at the end away from pop_front.
C14_Witness ==
    /\ variant = "fourth"
    /\ last.op = "peek_back"
    /\ last.ret = Some(1)
    /\ hist.seq = << 2, 1 >>
    /\ Fourth_pop_front(fourth).ret = Some(2)

\* In every state of a run of fourth.rs that has not panicked, pop_front and
\* pop_back reach Rc::try_unwrap with the node they remove holding exactly one
\* strong reference, the local one.
UnwrapSole ==
    (variant = "fourth" /\ ~fourth.panicked) =>
       /\ fourth.head # NULL =>
             LET u == Fourth_unlink_front(fourth)
             IN  u.node = fourth.head /\ u.list.mem[u.node].rc = 1
       /\ fourth.tail # NULL =>
             LET u == Fourth_unlink_back(fourth)
             IN  u.node = fourth.tail /\ u.list.mem[u.node].rc = 1

\* C15 (fourth.rs): whenever pop_front or pop_back calls Rc::try_unwrap on the
\* node it has removed, that Rc is the only strong reference left, so the
\* unwrap never panics: the pop of a non-empty deque returns the node's element
\* and frees the node, also when head and tail were the same node.
C15_UnwrapNeverPanics ==
    /\ []UnwrapSole
    /\ [](variant = "fourth" => fourth.why # "unwrap")
    /\ [][variant = "fourth" =>
             /\ (last'.op = "pop_front" /\ fourth.head # NULL) =>
                   /\ ~fourth'.panicked
                   /\ last'.ret = Some(fourth.mem[fourth.head].elem)
                   /\ fourth'.mem[fourth.head].rc = 0
             /\ (last'.op = "pop_back" /\ fourth.tail # NULL) =>
                   /\ ~fourth'.panicked
                   /\ last'.ret = Some(fourth.mem[fourth.tail].elem)
                   /\ fourth'.mem[fourth.tail].rc = 0]_vars

\* C15 witness: fourth.rs, pop_back has removed the only node of the deque, the
\* one head and tail both referred to, and returned its element.
C15_Witness ==
    /\ variant = "fourth"
    /\ last.op = "pop_back"
    /\ last.ret = Some(2)
    /\ hist.drained
    /\ ~fourth.panicked
    /\ fourth.head = NULL /\ fourth.tail = NULL
    /\ Fourth_nodes(fourth) = {}

\* The tail pointer of the queue is null or points to a live node; when the
\* queue is not empty the chain from head is acyclic, made of live nodes, and
\* ends at the node tail points to, whose next is null.
TailInPlace ==
    (variant = "fifth" /\ ~fifth.ub) =>
       /\ fifth.tail # NULL => fifth.mem[fifth.tail].live
       /\ fifth.head # NULL =>
             LET c == Chain(fifth.mem, fifth.head, MaxNodes + 1)
             IN  /\ Len(c) <= MaxNodes
                 /\ \A i, j \in 1..Len(c) : c[i] = c[j] => i = j
                 /\ \A i \in 1..Len(c) : fifth.mem[c[i]].live
                 /\ c[Len(c)] = fifth.tail
                 /\ fifth.mem[fifth.tail].next = NULL

\* C16 (fifth.rs): after every completed operation on a non-empty queue, tail
\* points to an allocated, not yet freed node, which is the last node of the
\* acyclic next-chain from head and whose next is null; a pop never leaves tail
\* pointing at the node it has just freed.
C16_TailPosition ==
    /\ []TailInPlace
    /\ [][(variant = "fifth" /\ last'.op \in {"pop", "into_next"} /\ fifth.head # NULL) =>
             /\ ~fifth'.mem[fifth.head].live
             /\ fifth'.tail # fifth.head]_vars

\* C16 witness: fifth.rs, a pop has freed the first node of a queue of three,
\* and tail points to the live last node of the two that remain.
C16_Witness ==
    /\ variant = "fifth"
    /\ last.op = "pop"
    /\ last.ret = Some(1)
    /\ hist.seq = << 2, 1 >>
    /\ fifth.head # fifth.tail
    /\ fifth.mem[fifth.tail].live
    /\ fifth.mem[fifth.head].next = fifth.tail

\* third.rs: the nodes that hold a value, the nodes the lists hs reach, and the
\* number of references to node a (heads of live lists and next links).
Third_nodes(t) == {a \in Addr : t.mem[a].rc > 0}

RECURSIVE ChainSet(_, _, _)
ChainSet(mem, p, n) ==
    IF p = NULL \/ n = 0 THEN {} ELSE {p} \cup ChainSet(mem, mem[p].next, n - 1)

Third_reach(t, hs) == UNION {ChainSet(t.mem, t.head[h], MaxNodes + 1) : h \in hs}

Third_refs(t, a) ==
    Cardinality({h \in t.live : t.head[h] = a})
       + Cardinality({b \in Third_nodes(t) : t.mem[b].next = a})

\* A node holds a value exactly when a live list reaches it, and its strong
\* count is the number of references to it.
SharedKept ==
    variant = "third" =>
       /\ Third_nodes(third) = Third_reach(third, third.live)
       /\ \A a \in Third_nodes(third) : third.mem[a].rc = Third_refs(third, a)

\* C17 (third.rs): dropping one of several lists frees exactly the nodes at
\* the front of its chain that nothing else references, up to the first node
\* that is still shared; no node another live list reaches is freed or
\* changed; and a node that no live list reaches any more has been freed.
C17_SharedTeardown ==
    /\ []SharedKept
    /\ [][(variant = "third" /\ last'.op = "drop") =>
             LET h == last'.src
                 c == Chain(third.mem, third.head[h], MaxNodes + 1)
                 others == Third_reach(third, third.live \ {h})
                 freed == {a \in Third_nodes(third) : third'.mem[a].rc = 0}
             IN  /\ freed = {c[i] : i \in {k \in 1..Len(c) :
                                     \A j \in 1..k : third.mem[c[j]].rc = 1}}
                 /\ freed = {c[i] : i \in 1..Len(c)} \ others
                 /\ \A a \in others :
                       /\ third'.mem[a].rc > 0
                       /\ third'.mem[a].elem = third.mem[a].elem
                       /\ third'.mem[a].next = third.mem[a].next
                 /\ \A g \in third.live \ {h} : third'.head[g] = third.head[g]
                 /\ third'.live = third.live \ {h}]_vars

\* C17 witness: third.rs, three lists shared node 1: the list made second by
\* prepending node 2, and a later one with node 3.  The drop of the list that
\* began at node 2 has freed node 2 and stopped at node 1, which the other two
\* lists still reach.
C17_Witness ==
    /\ variant = "third"
    /\ last.op = "drop"
    /\ Cardinality(third.live) = 2
    /\ third.mem[2].rc = 0
    /\ third.mem[1].rc = 2
    /\ third.mem[3].rc = 1
    /\ third.mem[3].next = 1

\* No node of the deque is its own neighbour: the node pop_front or pop_back
\* borrows inside the match is never the removed node, whose RefMut is still
\* alive there.
NeighbourDiffers ==
    (variant = "fourth" /\ ~fourth.panicked) =>
       /\ \A a \in Fourth_nodes(fourth) :
             fourth.mem[a].next # a /\ fourth.mem[a].prev # a
       /\ fourth.head # NULL =>
             Borrow_mut({fourth.head}, fourth.mem[fourth.head].next)
       /\ fourth.tail # NULL =>
             Borrow_mut({fourth.tail}, fourth.mem[fourth.tail].prev)

\* C18 (fourth.rs): in every sequence of pushes and pops at either end, every
\* borrow_mut finds its node unborrowed: the neighbour that pop_front and
\* pop_back borrow while the removed node is still mutably borrowed is a
\* different node, so no operation aborts with a borrow panic.
C18_NoBorrowPanic ==
    /\ []NeighbourDiffers
    /\ [](variant = "fourth" => fourth.why # "borrow")
    /\ [][(variant = "fourth" /\ (IsPop(last'.op) \/ IsPush(last'.op))) =>
             ~fourth'.panicked]_vars

\* C18 witness: fourth.rs, pop_front has removed the front node of a deque of
\* three and has borrowed its successor, now the head, to clear its prev link.
C18_Witness ==
    /\ variant = "fourth"
    /\ last.op = "pop_front"
    /\ last.ret = Some(2)
    /\ hist.seq = << 1, 2 >>
    /\ ~fourth.panicked
    /\ fourth.head # fourth.tail
    /\ fourth.mem[fourth.head].prev = NULL

\* fifth.rs: the nodes allocated by push and not yet freed.
Fifth_nodes(l) == {a \in Addr : l.mem[a].live}

\* Every node that push has allocated and no pop has freed is on the chain
\* from head, one node for each element of the queue; once the queue has been
\* dropped no node is left, and no node has been freed twice.
NoLeak ==
    variant = "fifth" =>
       /\ ~fifth.ub =>
             /\ Fifth_nodes(fifth) = ChainSet(fifth.mem, fifth.head, MaxNodes + 1)
             /\ Cardinality(Fifth_nodes(fifth)) = Len(hist.seq)
       /\ dropped =>
             /\ ~fifth.ub
             /\ Fifth_nodes(fifth) = {}
             /\ fifth.head = NULL /\ fifth.tail = NULL

\* C19 (fifth.rs): from every queue state that pushes, pops, peeks and
\* iterators reach, the loop of Drop ends, and after it every node push has
\* allocated has been freed exactly once, by an earlier pop or by the loop:
\* none is left allocated and none is freed a second time.
C19_DropFreesAll ==
    /\ []NoLeak
    /\ [][(variant = "fifth" /\ last'.op \in {"drop", "into_end"}) =>
             /\ dropped'
             /\ ~fifth'.ub
             /\ \A a \in Fifth_nodes(fifth) : fifth'.mem[a] = FreeBox]_vars

\* C19 witness: fifth.rs, the queue 2, 1, whose earlier elements pops had
\* removed down to empty, has been dropped.
C19_Witness ==
    /\ variant = "fifth"
    /\ dropped
    /\ last.op = "drop"
    /\ hist.drained
    /\ hist.snap = << 2, 1 >>
    /\ Fifth_nodes(fifth) = {}

\* A deque that has been dropped has no head, no tail and no node whose
\* strong count is above zero, and its drop has not panicked.
CyclesBroken ==
    (variant = "fourth" /\ dropped) =>
       /\ ~fourth.panicked
       /\ fourth.head = NULL /\ fourth.tail = NULL
       /\ \A a \in Addr : fourth.mem[a] = FreeCell

\* C20 (fourth.rs): from every reachable deque state the loop of Drop, which
\* calls pop_front until it returns None, ends with head and tail both None and
\* the strong count of every node that was in the deque at zero, although the
\* nodes of the deque refer to each other.
C20_DropBreaksCycles ==
    /\ []CyclesBroken
    /\ [][(variant = "fourth" /\ last'.op = "drop") =>
             /\ dropped'
             /\ \A a \in Fourth_nodes(fourth) : fourth'.mem[a].rc = 0
             /\ fourth'.head = NULL /\ fourth'.tail = NULL]_vars

\* C20 witness: fourth.rs, the deque 1, 2, 1, three nodes that referred to each
\* other through next and prev, has been dropped.
C20_Witness ==
    /\ variant = "fourth"
    /\ dropped
    /\ last.op = "drop"
    /\ hist.snap = << 1, 2, 1 >>
    /\ Fourth_nodes(fourth) = {}

\* second.rs: the teardown the drop of the list in the current state runs,
\* and the nodes of its chain.
Second_teardown == Second_drop_run(second.mem, second.head, 0, 0)

Second_chain == Chain(second.mem, second.head, MaxNodes + 1)

\* third.rs: the teardown the drop of list h in the current state runs, the
\* nodes of its chain, and how many of them, from the front, nothing but the
\* list or their predecessor in the chain refers to.
Third_teardown(h) == Third_drop_run(third.mem, third.head[h], 0, 0)

Third_chain(h) == Chain(third.mem, third.head[h], MaxNodes + 1)

Third_unshared(h) ==
    Cardinality({i \in 1..Len(Third_chain(h)) :
                    \A j \in 1..i : third.mem[Third_chain(h)[j]].rc = 1})

\* C21 as stated (second.rs, third.rs): during drop every node has its next
\* link taken out before it is destroyed, so the nesting depth of node
\* destruction is at most 1, and the loop ends after as many steps as the
\* chain of the dropped list has nodes.
C21_StepsAreNodes ==
    [][/\ (variant = "second" /\ last'.op \in {"drop", "into_end"}) =>
             /\ second'.mem = Second_teardown.mem
             /\ Second_teardown.depth <= 1
             /\ Second_teardown.steps = Len(Second_chain)
       /\ (variant = "third" /\ last'.op = "drop") =>
             /\ third'.mem = Third_teardown(last'.src).mem
             /\ Third_teardown(last'.src).depth <= 1
             /\ Third_teardown(last'.src).steps = Len(Third_chain(last'.src))]_vars

\* C21 amended (second.rs, third.rs): during drop every node has its next link
\* taken out before it is destroyed, so the nesting depth of node destruction
\* is at most 1 for every chain.  In second.rs the loop ends after as many
\* steps as the chain has nodes and destroys them all.  In third.rs the loop
\* destroys the nodes at the front of the chain that nothing else refers to,
\* one per step, and ends there with one more step when it meets a node that
\* is still shared: never more steps than the chain has nodes, and fewer when
\* nodes follow the shared one.
C21_IterativeTeardown ==
    [][/\ (variant = "second" /\ last'.op \in {"drop", "into_end"}) =>
             /\ second'.mem = Second_teardown.mem
             /\ Second_teardown.depth <= 1
             /\ Second_teardown.steps = Len(Second_chain)
             /\ \A a \in Addr : second'.mem[a] = FreeBox
       /\ (variant = "third" /\ last'.op = "drop") =>
             LET h == last'.src
                 k == Third_unshared(h)
                 n == Len(Third_chain(h))
             IN  /\ third'.mem = Third_teardown(h).mem
                 /\ Third_teardown(h).depth <= 1
                 /\ Third_teardown(h).steps = IF k < n THEN k + 1 ELSE n
                 /\ Third_teardown(h).steps <= n
                 /\ \A i \in 1..n : (third'.mem[Third_chain(h)[i]].rc = 0) <=> i <= k]_vars

\* C21 witness: third.rs, a list of three nodes whose second node another list
\* shared has been dropped: the loop has destroyed the first node and stopped
\* at the second, which with the third is still allocated.
C21_Witness ==
    /\ variant = "third"
    /\ last.op = "drop"
    /\ last.arg = 3
    /\ Cardinality({a \in Addr : third.mem[a].rc > 0}) = 2
    /\ Cardinality(third.live) = 2

=============================================================================
